---- MODULE Spec2Model ----
(***************************************************************************)
(* Backup orchestration of mgob (pkg/backup/local.go): Run, the per-       *)
(* database fan-out runDumpPerDBAndUpload, the single-database chain       *)
(* runDumpAndUpload, dump and applyRetention, over a small file system.    *)
(*                                                                         *)
(* The file system is one sequence of files ordered by modification time,  *)
(* oldest first.  A file is [loc, name, ts, ext, size]: loc is "tmp"       *)
(* (conf.TmpPath) or "plan" (c.planDir), and name-ts.ext is its base name. *)
(* Sizes are kept for the files of tmpPath only (the one place the code    *)
(* reads a size is os.Stat of the fresh archive); elsewhere size is 0.     *)
(***************************************************************************)
EXTENDS Integers, Sequences, FiniteSets, TLC

\* ---------------------------------------------------------------- bounds
MaxRuns == 3
MaxFanoutRuns == 1
MaxTime == 2
MaxDBs == 2
MaxRetention == 2
MaxSize == 2
MaxDirFiles == 10

DBNames == {"A", "B", "C"}
Sizes == 1..MaxSize

\* ---------------------------------------------------------------- plans
PlanName == "plan"
BackupModeSingle == "single"
BackupModeDatabase == "database"
Modes == {"", BackupModeSingle, BackupModeDatabase, "weekly"}

VARIABLES
    plan,        \* config.Plan (immutable)
    now,         \* wall clock, in seconds
    runs,        \* number of calls of Run so far
    fs,          \* the files of tmpPath and planDir, oldest modification first
    planDirExists,
    pc,          \* position of the running call; "idle" between calls of Run
    c,           \* the dumpConfig built by Run
    dc,          \* the copy of c made by the fan-out loop
    cc,          \* the dumpConfig runDumpAndUpload was called with
    caller,      \* who called runDumpAndUpload: "Run" or "perdb"
    dbNames, idx, attempts, totalSize, failedDBs,
    archive, mlog, file, res, err,
    listed,      \* getDBNames opened a connection during this call of Run
    enumErr,     \* the error getDBNames returned to the fan-out
    ret,         \* what Run returned last: [res, err]
    cmd,         \* the selectors of the last dump command
    trace,       \* the stages the running call of runDumpAndUpload has executed
    calls,       \* the calls of runDumpAndUpload made by this fan-out
    succ         \* the calls of runDumpAndUpload so far: the seconds they started
                 \* in (starts), whether two started in one second (clash), how
                 \* many succeeded (n), whether each of those moved a log (logged)

vars == <<plan, now, runs, fs, planDirExists, pc, c, dc, cc, caller, dbNames, idx,
          attempts, totalSize, failedDBs, archive, mlog, file, res, err, listed, enumErr,
          ret, cmd, trace, calls, succ>>

\* ---------------------------------------------------------------- values
Nil == [kind |-> "nil"]
NoPath == [loc |-> "", name |-> <<>>, ts |-> 0, ext |-> ""]
NoConfig == [name |-> <<>>, database |-> "", ts |-> 0]
NoResult == [Plan |-> "", Timestamp |-> 0, Status |-> 0, Duration |-> 0,
             Name |-> NoPath, Size |-> 0]
NoReturn == [res |-> NoResult, err |-> Nil]

Path(loc, name, ts, ext) == [loc |-> loc, name |-> name, ts |-> ts, ext |-> ext]
PathOf(f) == Path(f.loc, f.name, f.ts, f.ext)
FileAt(p, size) == [loc |-> p.loc, name |-> p.name, ts |-> p.ts, ext |-> p.ext,
                    size |-> size]

\* filepath.Split(archive): the base name, "" for ""
BaseName(p) == IF p = NoPath THEN NoPath ELSE Path("", p.name, p.ts, p.ext)
\* filepath.Join(c.planDir, res.Name)
JoinPlanDir(base) == Path("plan", base.name, base.ts, base.ext)
\* fmt.Sprintf("%v.encrypted", file)
EncryptedPath(p) == Path(p.loc, p.name, p.ts, p.ext \o ".encrypted")

\* ----------------------------------------------------------- file system
RECURSIVE SelectFiles(_, _)
SelectFiles(s, keep) ==
    IF s = <<>> THEN <<>>
    ELSE IF Head(s) \in keep THEN <<Head(s)>> \o SelectFiles(Tail(s), keep)
         ELSE SelectFiles(Tail(s), keep)

Files(s) == {s[i] : i \in 1..Len(s)}
Exists(s, p) == \E i \in 1..Len(s) : PathOf(s[i]) = p
Lookup(s, p) == CHOOSE f \in Files(s) : PathOf(f) = p
\* os.Remove, rm -f
RemovePath(s, p) == SelectFiles(s, {f \in Files(s) : PathOf(f) # p})
\* a write: the file becomes the most recently modified
WriteFile(s, p, size) == Append(RemovePath(s, p), FileAt(p, size))
\* mutant: the file is copied, the source stays
CopyToPlanDir(s, p) ==
    LET dst == Path("plan", p.name, p.ts, p.ext)
    IN Append(RemovePath(s, dst), FileAt(dst, 0))
\* mv src dir: the file keeps its modification time and replaces a namesake
MoveToPlanDir(s, p) ==
    LET dst == Path("plan", p.name, p.ts, p.ext)
        t == RemovePath(s, dst)
    IN [i \in 1..Len(t) |-> IF PathOf(t[i]) = p
                            THEN FileAt(dst, 0) ELSE t[i]]

Reverse(s) == [i \in 1..Len(s) |-> s[Len(s) + 1 - i]]
ArchiveExts == {"gz", "gz.encrypted"}
LogExts == {"log"}
\* mutant: ls -1tr, oldest first
ListOldestFirst(s, exts) ==
    SelectFiles(s, {f \in Files(s) : f.loc = "plan" /\ f.ext \in exts})
\* ls -1t <globs> in the plan directory: newest first
ListNewestFirst(s, exts) ==
    Reverse(SelectFiles(s, {f \in Files(s) : f.loc = "plan" /\ f.ext \in exts}))
\* tail -n +k
TailFrom(s, k) == IF k > Len(s) THEN <<>> ELSE SubSeq(s, k, Len(s))
\* mutant: tail -n +(retention+2), one file too many is kept
PruneClassKeepsOneMore(s, exts, retention) ==
    LET doomed == Files(TailFrom(ListNewestFirst(s, exts), retention + 2))
    IN SelectFiles(s, Files(s) \ doomed)
\* cd path && rm -f $(ls -1t <globs> | tail -n +(retention+1))
PruneClass(s, exts, retention) ==
    LET doomed == Files(TailFrom(ListNewestFirst(s, exts), retention + 1))
    IN SelectFiles(s, Files(s) \ doomed)

\* ---------------------------------------------------------------- errRes
\* mutant: the Result starts as success
errResOk(cfg) == [Plan |-> plan.Name, Timestamp |-> cfg.ts, Status |-> 200,
                  Duration |-> 0, Name |-> NoPath, Size |-> 0]
errRes(cfg) == [Plan |-> plan.Name, Timestamp |-> cfg.ts, Status |-> 500,
                Duration |-> 0, Name |-> NoPath, Size |-> 0]

\* an executed stage: its argument (for retain, the files before it and the
\* commands it ran) and outcome
Step(op, arg, ok) == [op |-> op, arg |-> arg, ok |-> ok]

\* ------------------------------------------------------------------ dump
\* the archive and log names of dump
ArchivePath(cfg) == Path("tmp", cfg.name, cfg.ts, "gz")
LogPath(cfg) == Path("tmp", cfg.name, cfg.ts, "log")

RECURSIVE ExcludeFlags(_)
ExcludeFlags(xs) ==
    IF xs = <<>> THEN <<>>
    ELSE (IF Head(xs) # "" THEN <<<<"--excludeCollection", Head(xs)>>>> ELSE <<>>)
         \o ExcludeFlags(Tail(xs))

\* mutant: host and port are given whether or not a URI is set
DumpCmdHostAlways(cfg) ==
    <<<<"--archive", ArchivePath(cfg)>>>>
    \o (IF plan.Uri # "" THEN <<<<"--uri", plan.Uri>>>> ELSE <<>>)
    \o <<<<"--host", plan.Host>>, <<"--port", plan.Port>>>>
    \o (IF cfg.database # "" THEN <<<<"--db", cfg.database>>>> ELSE <<>>)
\* the selectors of the mongodump command line, in order
DumpCmd(cfg) ==
    <<<<"--archive", ArchivePath(cfg)>>>>
    \o (IF plan.Uri # ""
        THEN <<<<"--uri", plan.Uri>>>>
        ELSE <<<<"--host", plan.Host>>, <<"--port", plan.Port>>>>
             \o (IF plan.Username # "" /\ plan.Password # ""
                 THEN <<<<"-u", plan.Username>>, <<"-p", plan.Password>>>>
                 ELSE <<>>))
    \o (IF cfg.database # "" THEN <<<<"--db", cfg.database>>>> ELSE <<>>)
    \o (IF plan.Collection # "" THEN <<<<"--collection", plan.Collection>>>> ELSE <<>>)
    \o ExcludeFlags(plan.ExcludeCollections)
    \o (IF plan.Params # "" THEN <<<<"", plan.Params>>>> ELSE <<>>)

\* mutant: the partial archive is left behind
DumpNoCleanup(s, p) == s
\* os.Remove(archive) after a failed command
DumpCleanup(s, p) == RemovePath(s, p)

\* logToFile
logToFile(s, p, hasOutput) == IF hasOutput THEN WriteFile(s, p, 1) ELSE s

\* -------------------------------------------------------- applyRetention
RetentionErr(what) == [kind |-> "retention", what |-> what]

\* mutant: one listing of archives and logs together is cut after N files
applyRetentionOneList(s, retention, gzOk, logOk) ==
    IF ~gzOk THEN [fs |-> s, err |-> RetentionErr("gz"), ran |-> <<"gz">>]
    ELSE IF ~logOk THEN [fs |-> s, err |-> RetentionErr("log"), ran |-> <<"gz">>]
    ELSE [fs |-> PruneClass(s, ArchiveExts \cup LogExts, retention), err |-> Nil,
          ran |-> <<"gz">>]

\* gzOk, logOk: whether the two shell commands succeed; a failed command is
\* taken to have removed nothing.  ran: the commands that were run, in order.
applyRetention(s, retention, gzOk, logOk) ==
    IF ~gzOk THEN [fs |-> s, err |-> RetentionErr("gz"), ran |-> <<"gz">>]
    ELSE LET s1 == PruneClass(s, ArchiveExts, retention)
         IN IF ~logOk
            THEN [fs |-> s1, err |-> RetentionErr("log"), ran |-> <<"gz", "log">>]
            ELSE [fs |-> PruneClass(s1, LogExts, retention), err |-> Nil,
                  ran |-> <<"gz", "log">>]

\* ------------------------------------------------------------------- Run
NewConfig == [name |-> <<plan.Name>>, database |-> plan.Database, ts |-> now]

\* what the steps of runDumpAndUpload leave alone
Outer == <<plan, now, runs, c, dc, cc, caller, dbNames, idx, attempts, totalSize,
           failedDBs, listed, enumErr, ret, calls, succ>>

ResetChain ==
    /\ archive' = NoPath /\ mlog' = NoPath /\ file' = NoPath
    /\ res' = NoResult /\ err' = Nil
ResetLoop ==
    /\ dbNames' = <<>> /\ idx' = 1 /\ attempts' = 0 /\ totalSize' = 0
    /\ failedDBs' = <<>> /\ dc' = NoConfig

\* bookkeeping of a call of runDumpAndUpload
Started(cfg) ==
    succ' = [succ EXCEPT !.starts = @ \cup {cfg.ts}, !.clash = @ \/ cfg.ts \in succ.starts]

\* mutant: single mode does not look at the exclusion list
SingleModeNeverRejected == FALSE
\* len(c.plan.Target.ExcludeDatabases) != 0 in single mode
SingleModeRejected == Len(plan.ExcludeDatabases) # 0

Run ==
    /\ pc = "idle" /\ runs < MaxRuns
    /\ runs' = runs + 1
    /\ c' = NewConfig
    /\ trace' = <<>> /\ calls' = <<>> /\ listed' = FALSE /\ enumErr' = Nil
    /\ ResetChain /\ ResetLoop
    /\ \/ /\ plan.Mode = BackupModeDatabase
          /\ runs < MaxFanoutRuns
          /\ pc' = "perdb" /\ cc' = NoConfig /\ caller' = "" /\ ret' = NoReturn
          /\ succ' = succ
       \/ /\ plan.Mode \in {"", BackupModeSingle}
          /\ SingleModeRejected
          /\ pc' = "idle" /\ cc' = NoConfig /\ caller' = ""
          /\ ret' = [res |-> errRes(c'), err |-> [kind |-> "config", what |-> "exclude"]]
          /\ succ' = succ
       \/ /\ plan.Mode \in {"", BackupModeSingle}
          /\ ~SingleModeRejected
          /\ pc' = "dump" /\ cc' = c' /\ caller' = "Run" /\ ret' = NoReturn
          /\ Started(cc')
       \/ /\ plan.Mode \notin {"", BackupModeSingle, BackupModeDatabase}
          /\ pc' = "idle" /\ cc' = NoConfig /\ caller' = ""
          /\ ret' = [res |-> errRes(c'), err |-> [kind |-> "config", what |-> "mode"]]
          /\ succ' = succ
    /\ cmd' = <<>>
    /\ UNCHANGED <<plan, now, fs, planDirExists>>

\* return runDumpAndUpload(c)
RunReturn ==
    /\ pc = "chainRet" /\ caller = "Run"
    /\ ret' = [res |-> res, err |-> err]
    /\ pc' = "idle"
    /\ ResetChain /\ trace' = <<>> /\ cmd' = <<>>
    /\ UNCHANGED <<succ, plan, now, runs, fs, planDirExists, c, dc, cc, caller, dbNames, idx,
                   attempts, totalSize, failedDBs, listed, enumErr, calls>>

Tick ==
    /\ pc = "idle" /\ now < MaxTime
    /\ now' = now + 1
    /\ UNCHANGED <<succ, plan, runs, fs, planDirExists, pc, c, dc, cc, caller, dbNames, idx,
                   attempts, totalSize, failedDBs, archive, mlog, file, res, err,
                   listed, enumErr, ret, cmd, trace, calls>>

\* ------------------------------------------------- runDumpPerDBAndUpload
ConnectErr == [kind |-> "enumeration", what |-> "connect"]
ListErr == [kind |-> "enumeration", what |-> "list"]
PartialErr(failed, n) ==
    [kind |-> "partial", nfailed |-> Len(failed), attempts |-> n, names |-> failed]

\* the database lists the server may return: no name twice
DBLists ==
    {s \in UNION {[1..n -> DBNames] : n \in 0..MaxDBs} :
        \A i, j \in 1..Len(s) : i # j => s[i] # s[j]}

\* mutant: the exclusion list is ignored
IsExcludedNever(dbName) == FALSE
\* the inner loop over c.plan.Target.ExcludeDatabases
IsExcluded(dbName) ==
    \E i \in 1..Len(plan.ExcludeDatabases) : plan.ExcludeDatabases[i] = dbName

\* dc := *c; dc.database = dbName; dc.name = plan.Name-dbName
DeriveConfig(parent, dbName) ==
    [parent EXCEPT !.database = dbName, !.name = <<plan.Name, "-", dbName>>]

\* the argument of the call of runDumpAndUpload in the loop
ChainArg(parent, child) == parent

\* mutant: the fan-out does not ask for a URI
UriNeverMissing == FALSE
\* c.plan.Target.Uri == ""
UriMissing == plan.Uri = ""

PerDBCheckUri ==
    /\ pc = "perdb"
    /\ \/ /\ UriMissing
          /\ ret' = [res |-> errRes(c), err |-> [kind |-> "config", what |-> "uri"]]
          /\ pc' = "idle"
       \/ /\ ~UriMissing
          /\ pc' = "enum"
          /\ ret' = ret
    /\ UNCHANGED <<succ, plan, now, runs, fs, planDirExists, c, dc, cc, caller, dbNames, idx,
                   attempts, totalSize, failedDBs, archive, mlog, file, res, err,
                   listed, enumErr, cmd, trace, calls>>

\* what getDBNames may return: nil and an error, or the names and nil
EnumOutcomes ==
    {[names |-> <<>>, err |-> e] : e \in {ConnectErr, ListErr}}
    \cup {[names |-> names, err |-> Nil] : names \in DBLists}

\* mutant: the fan-out goes on after a failed enumeration
EnumAbortsNever(e) == FALSE
\* if err != nil after getDBNames
EnumAborts(e) == e # Nil

\* dbNames, err := getDBNames(c) and the check of its error
GetDBNames ==
    /\ pc = "enum"
    /\ listed' = TRUE
    /\ \E out \in EnumOutcomes :
          /\ enumErr' = out.err
          /\ IF EnumAborts(out.err)
             THEN /\ ret' = [res |-> errRes(c), err |-> out.err]
                  /\ pc' = "idle"
                  /\ dbNames' = dbNames
             ELSE /\ dbNames' = out.names
                  /\ pc' = "loop"
                  /\ ret' = ret
    /\ UNCHANGED <<succ, plan, now, runs, fs, planDirExists, c, dc, cc, caller, idx,
                   attempts, totalSize, failedDBs, archive, mlog, file, res, err,
                   cmd, trace, calls>>

\* continue dbLoop
PerDBSkip ==
    /\ pc = "loop" /\ idx <= Len(dbNames)
    /\ IsExcluded(dbNames[idx])
    /\ idx' = idx + 1
    /\ UNCHANGED <<succ, plan, now, runs, fs, planDirExists, pc, c, dc, cc, caller, dbNames,
                   attempts, totalSize, failedDBs, archive, mlog, file, res, err,
                   listed, enumErr, ret, cmd, trace, calls>>

\* attempts++, the copy, and the call of runDumpAndUpload
PerDBCall ==
    /\ pc = "loop" /\ idx <= Len(dbNames)
    /\ ~IsExcluded(dbNames[idx])
    /\ attempts' = attempts + 1
    /\ dc' = DeriveConfig(c, dbNames[idx])
    /\ cc' = ChainArg(c, dc')
    /\ caller' = "perdb"
    /\ pc' = "dump"
    /\ trace' = <<>>
    /\ ResetChain
    /\ Started(cc')
    /\ cmd' = <<>>
    /\ UNCHANGED <<plan, now, runs, fs, planDirExists, c, dbNames, idx, totalSize,
                   failedDBs, listed, enumErr, ret, calls>>

\* res, err := runDumpAndUpload(...) and the bookkeeping after it
PerDBAfter ==
    /\ pc = "chainRet" /\ caller = "perdb"
    /\ \/ /\ err # Nil
          /\ failedDBs' = Append(failedDBs, dbNames[idx])
          /\ totalSize' = totalSize
       \/ /\ err = Nil
          /\ totalSize' = totalSize + res.Size
          /\ failedDBs' = failedDBs
    /\ calls' = Append(calls, [db |-> dbNames[idx], cfg |-> cc, ok |-> err = Nil,
                               size |-> IF err = Nil THEN res.Size ELSE 0])
    /\ idx' = idx + 1
    /\ pc' = "loop"
    /\ ResetChain /\ trace' = <<>> /\ cmd' = <<>>
    /\ UNCHANGED <<succ, plan, now, runs, fs, planDirExists, c, dc, cc, caller, dbNames,
                   attempts, listed, enumErr, ret>>

\* the result built once the loop is over
FanoutResult(cfg, failed, n, total, elapsed) ==
    LET r == [errRes(cfg) EXCEPT !.Duration = elapsed]
    IN IF Len(failed) > 0
       THEN [res |-> r, err |-> PartialErr(failed, n)]
       ELSE [res |-> [r EXCEPT !.Status = 200, !.Size = total], err |-> Nil]

PerDBFinish ==
    /\ pc = "loop" /\ idx > Len(dbNames)
    /\ ret' = FanoutResult(c, failedDBs, attempts, totalSize, now - c.ts)
    /\ pc' = "idle"
    /\ UNCHANGED <<succ, plan, now, runs, fs, planDirExists, c, dc, cc, caller, dbNames, idx,
                   attempts, totalSize, failedDBs, archive, mlog, file, res, err,
                   listed, enumErr, cmd, trace, calls>>

\* ------------------------------------------------------ runDumpAndUpload
Fail(e) == err' = e /\ pc' = "chainRet"

\* archive, mlog, err := dump(c); res := errRes(c); res.Name; if err != nil
Dump ==
    /\ pc = "dump"
    /\ cmd' = DumpCmd(cc)
    /\ \/ \E partial \in BOOLEAN, cause \in {"exit", "timeout"} :
            /\ fs' = DumpCleanup(IF partial THEN WriteFile(fs, ArchivePath(cc), 1)
                                 ELSE fs, ArchivePath(cc))
            /\ archive' = NoPath /\ mlog' = NoPath
            /\ res' = [errRes(cc) EXCEPT !.Name = BaseName(NoPath)]
            /\ trace' = Append(trace, Step("dump", ArchivePath(cc), FALSE))
            /\ Fail([kind |-> "dump", what |-> cause])
       \/ \E size \in Sizes, hasOutput \in BOOLEAN :
            /\ fs' = logToFile(WriteFile(fs, ArchivePath(cc), size), LogPath(cc),
                               hasOutput)
            /\ archive' = ArchivePath(cc) /\ mlog' = LogPath(cc)
            /\ res' = [errRes(cc) EXCEPT !.Name = BaseName(ArchivePath(cc))]
            /\ trace' = Append(trace, Step("dump", ArchivePath(cc), TRUE))
            /\ pc' = "mkdir" /\ err' = Nil
    /\ UNCHANGED <<Outer, planDirExists, file>>

\* mkdir -p c.planDir
Mkdir ==
    /\ pc = "mkdir"
    /\ \/ /\ trace' = Append(trace, Step("mkdir", NoPath, FALSE))
          /\ Fail([kind |-> "stage", what |-> "mkdir"])
          /\ planDirExists' = planDirExists
       \/ /\ trace' = Append(trace, Step("mkdir", NoPath, TRUE))
          /\ planDirExists' = TRUE
          /\ pc' = "stat" /\ err' = err
    /\ UNCHANGED <<Outer, fs, archive, mlog, file, res, cmd>>

\* mutant: the size of the archive is not put in the Result
StatForgetsSize ==
    /\ pc = "stat"
    /\ \/ /\ trace' = Append(trace, Step("stat", archive, FALSE))
          /\ Fail([kind |-> "stage", what |-> "stat"])
          /\ res' = res
       \/ /\ Exists(fs, archive)
          /\ trace' = Append(trace, Step("stat", archive, TRUE))
          /\ res' = res
          /\ pc' = "mvArchive" /\ err' = err
    /\ UNCHANGED <<Outer, fs, planDirExists, archive, mlog, file, cmd>>

\* fi, err := os.Stat(archive); res.Size = fi.Size()
Stat ==
    /\ pc = "stat"
    /\ \/ /\ trace' = Append(trace, Step("stat", archive, FALSE))
          /\ Fail([kind |-> "stage", what |-> "stat"])
          /\ res' = res
       \/ /\ Exists(fs, archive)
          /\ trace' = Append(trace, Step("stat", archive, TRUE))
          /\ res' = [res EXCEPT !.Size = Lookup(fs, archive).size]
          /\ pc' = "mvArchive" /\ err' = err
    /\ UNCHANGED <<Outer, fs, planDirExists, archive, mlog, file, cmd>>

\* mv archive c.planDir
MvArchive ==
    /\ pc = "mvArchive"
    /\ \/ /\ trace' = Append(trace, Step("mvArchive", archive, FALSE))
          /\ Fail([kind |-> "stage", what |-> "mvArchive"])
          /\ fs' = fs
       \/ /\ trace' = Append(trace, Step("mvArchive", archive, TRUE))
          /\ fs' = MoveToPlanDir(fs, archive)
          /\ pc' = "mvLog" /\ err' = err
    /\ UNCHANGED <<Outer, planDirExists, archive, mlog, file, res, cmd>>

\* the log file is moved if it exists
MvLog ==
    /\ pc = "mvLog"
    /\ \/ /\ ~Exists(fs, mlog)
          /\ pc' = "retain"
          /\ UNCHANGED <<fs, err, trace>>
       \/ /\ Exists(fs, mlog)
          /\ trace' = Append(trace, Step("mvLog", mlog, FALSE))
          /\ Fail([kind |-> "stage", what |-> "mvLog"])
          /\ fs' = fs
       \/ /\ Exists(fs, mlog)
          /\ trace' = Append(trace, Step("mvLog", mlog, TRUE))
          /\ fs' = MoveToPlanDir(fs, mlog)
          /\ pc' = "retain" /\ err' = err
    /\ UNCHANGED <<Outer, planDirExists, archive, mlog, file, res, cmd>>

\* if retention > 0 { applyRetention }; file := filepath.Join(planDir, res.Name)
Retain ==
    /\ pc = "retain"
    /\ \/ /\ plan.Retention > 0
          /\ \E gzOk, logOk \in BOOLEAN :
                LET r == applyRetention(fs, plan.Retention, gzOk, logOk)
                IN /\ fs' = r.fs
                   /\ trace' = Append(trace, Step("retain", [dir |-> fs, ran |-> r.ran],
                                                  r.err = Nil))
                   /\ IF r.err # Nil
                      THEN Fail(r.err) /\ file' = file
                      ELSE /\ pc' = "encrypt" /\ err' = err
                           /\ file' = JoinPlanDir(res.Name)
       \/ /\ plan.Retention <= 0
          /\ pc' = "encrypt"
          /\ file' = JoinPlanDir(res.Name)
          /\ UNCHANGED <<fs, err, trace>>
    /\ UNCHANGED <<Outer, planDirExists, archive, mlog, res, cmd>>

\* encrypt: writes encryptedFile from file
encrypt(s, src, dst) == WriteFile(s, dst, 0)
\* removeUnencrypted: deletes the unencrypted original
removeUnencrypted(s, src, dst) == RemovePath(s, src)

\* mutant: the chain goes on with the path of the unencrypted file
EncryptKeepsPlainPath ==
    /\ pc = "encrypt"
    /\ \/ /\ plan.Encryption
          /\ trace' = Append(trace, Step("encrypt", file, FALSE))
          /\ Fail([kind |-> "encrypt"])
          /\ UNCHANGED <<fs, file>>
       \/ /\ plan.Encryption
          /\ Exists(fs, file)
          /\ trace' = Append(trace, Step("encrypt", file, TRUE))
          /\ fs' = removeUnencrypted(encrypt(fs, file, EncryptedPath(file)), file,
                                     EncryptedPath(file))
          /\ file' = file
          /\ pc' = "sftp" /\ err' = err
       \/ /\ ~plan.Encryption
          /\ pc' = "sftp"
          /\ UNCHANGED <<fs, file, err, trace>>
    /\ UNCHANGED <<Outer, planDirExists, archive, mlog, res, cmd>>

\* if c.plan.Encryption != nil: encrypt, removeUnencrypted, file = encryptedFile
Encrypt ==
    /\ pc = "encrypt"
    /\ \/ /\ plan.Encryption
          /\ trace' = Append(trace, Step("encrypt", file, FALSE))
          /\ Fail([kind |-> "encrypt"])
          /\ UNCHANGED <<fs, file>>
       \/ /\ plan.Encryption
          /\ Exists(fs, file)
          /\ trace' = Append(trace, Step("encrypt", file, TRUE))
          /\ fs' = removeUnencrypted(encrypt(fs, file, EncryptedPath(file)), file,
                                     EncryptedPath(file))
          /\ file' = EncryptedPath(file)
          /\ pc' = "sftp" /\ err' = err
       \/ /\ ~plan.Encryption
          /\ pc' = "sftp"
          /\ UNCHANGED <<fs, file, err, trace>>
    /\ UNCHANGED <<Outer, planDirExists, archive, mlog, res, cmd>>

\* mutant: a failed upload does not stop the uploads after it
UploadContinues(stage, next) ==
    /\ pc = stage
    /\ \/ /\ stage \in plan.Uploads
          /\ \E ok \in BOOLEAN : trace' = Append(trace, Step(stage, file, ok))
          /\ pc' = next /\ err' = err
       \/ /\ stage \notin plan.Uploads
          /\ pc' = next
          /\ UNCHANGED <<err, trace>>
    /\ UNCHANGED <<Outer, fs, planDirExists, archive, mlog, file, res, cmd>>

\* one destination: if configured, upload file; the first error is returned
Upload(stage, next) ==
    /\ pc = stage
    /\ \/ /\ stage \in plan.Uploads
          /\ trace' = Append(trace, Step(stage, file, FALSE))
          /\ Fail([kind |-> "upload", what |-> stage])
       \/ /\ stage \in plan.Uploads
          /\ trace' = Append(trace, Step(stage, file, TRUE))
          /\ pc' = next /\ err' = err
       \/ /\ stage \notin plan.Uploads
          /\ pc' = next
          /\ UNCHANGED <<err, trace>>
    /\ UNCHANGED <<Outer, fs, planDirExists, archive, mlog, file, res, cmd>>

\* mutant: the S3 upload is passed over
SftpSkipsS3 == Upload("sftp", "gcloud")
Sftp == Upload("sftp", "s3")
S3 == Upload("s3", "gcloud")
GCloud == Upload("gcloud", "azure")
Azure == Upload("azure", "rclone")
Rclone == Upload("rclone", "finalize")

\* res.Status = 200; res.Duration = t2.Sub(c.ts); return res, nil
Finalize ==
    /\ pc = "finalize"
    /\ res' = [res EXCEPT !.Status = 200, !.Duration = now - cc.ts]
    /\ err' = Nil
    /\ pc' = "chainRet"
    /\ trace' = Append(trace, Step("finalize", NoPath, TRUE))
    /\ succ' = [succ EXCEPT !.n = @ + 1,
                            !.logged = @ /\ \E i \in 1..Len(trace) :
                                                  trace[i].op = "mvLog"]
    /\ UNCHANGED <<plan, now, runs, c, dc, cc, caller, dbNames, idx, attempts,
                   totalSize, failedDBs, listed, enumErr, ret, calls>>
    /\ UNCHANGED <<fs, planDirExists, archive, mlog, file, cmd>>

\* ------------------------------------------------------------------ Spec
\* The plans.  Every combination of the fields is a plan; the ones explored are
\* every plan that is rejected at once, and of the plans that run the chain the
\* ones below: mode and connection selector do not change what the chain does
\* after the dump command, so the chain's options vary in full under one of them.
Targets ==
    [Uri : {"", "mongodb://h"}, Host : {"h"}, Port : {27017},
     Username : {"u"}, Password : {"pw"}, Database : {""},
     Collection : {""}, ExcludeCollections : {<<>>}, Params : {""},
     ExcludeDatabases : {<<>>, <<"B">>}]
UploadSets == {{}, {"s3"}, {"sftp", "rclone"}, {"gcloud", "azure"}}

MakePlan(mode, t, retention, encryption, uploads) ==
    [Name |-> PlanName, Mode |-> mode, Uri |-> t.Uri, Host |-> t.Host,
     Port |-> t.Port, Username |-> t.Username, Password |-> t.Password,
     Database |-> t.Database, Collection |-> t.Collection,
     ExcludeCollections |-> t.ExcludeCollections, Params |-> t.Params,
     ExcludeDatabases |-> t.ExcludeDatabases, Retention |-> retention,
     Encryption |-> encryption, Uploads |-> uploads]

AllPlans ==
    {MakePlan(m, t, r, e, u) :
        m \in Modes, t \in Targets, r \in 0..MaxRetention, e \in BOOLEAN,
        u \in UploadSets}

Explored(p) ==
    \/ p.Mode = "weekly"
    \/ p.Mode \in {"", BackupModeSingle} /\ p.ExcludeDatabases # <<>>
    \/ p.Mode = BackupModeDatabase /\ p.Uri = ""
    \/ p.Mode = "" /\ p.Uri = ""
    \/ p.Mode = BackupModeSingle /\ p.Uri # "" /\ p.Uploads = {} /\ ~p.Encryption
    \/ p.Mode = BackupModeDatabase /\ p.Uploads \in {{}, {"s3"}}

Plans == {p \in AllPlans : Explored(p)}

Init ==
    /\ plan \in Plans
    /\ now = 1 /\ runs = 0
    /\ fs = <<>> /\ planDirExists = FALSE
    /\ pc = "idle"
    /\ c = NoConfig /\ dc = NoConfig /\ cc = NoConfig /\ caller = ""
    /\ dbNames = <<>> /\ idx = 1 /\ attempts = 0 /\ totalSize = 0 /\ failedDBs = <<>>
    /\ archive = NoPath /\ mlog = NoPath /\ file = NoPath
    /\ res = NoResult /\ err = Nil
    /\ listed = FALSE /\ enumErr = Nil
    /\ ret = NoReturn
    /\ cmd = <<>>
    /\ trace = <<>> /\ calls = <<>> /\ succ = [starts |-> {}, clash |-> FALSE, n |-> 0, logged |-> TRUE]

Next ==
    \/ Run \/ RunReturn \/ Tick
    \/ PerDBCheckUri \/ GetDBNames \/ PerDBSkip \/ PerDBCall \/ PerDBAfter
    \/ PerDBFinish
    \/ Dump \/ Mkdir \/ Stat \/ MvArchive \/ MvLog \/ Retain \/ Encrypt
    \/ Sftp \/ S3 \/ GCloud \/ Azure \/ Rclone \/ Finalize

Spec == Init /\ [][Next]_vars

\* ----------------------------------------------------- SpecRetention
\* applyRetention on its own: the chain stands before the retention stage with
\* any plan directory of up to MaxDirFiles files.  Archives and logs come in
\* any order of modification; the archives are all plain, all encrypted, or
\* plain and encrypted in turn.
ArchiveExtAt(pattern, i) ==
    IF pattern = "plain" THEN "gz"
    ELSE IF pattern = "encrypted" THEN "gz.encrypted"
    ELSE IF i % 2 = 0 THEN "gz.encrypted" ELSE "gz"
DirListings ==
    {[i \in 1..Len(cl) |->
        FileAt(Path("plan", <<PlanName>>, i,
                    IF cl[i] = "log" THEN "log" ELSE ArchiveExtAt(pattern, i)), 0)] :
        cl \in UNION {[1..n -> {"archive", "log"}] : n \in 0..MaxDirFiles},
        pattern \in {"plain", "encrypted", "mixed"}}

InitRetention ==
    /\ plan \in {p \in AllPlans : /\ p.Mode = "" /\ p.Uri = "" /\ ~p.Encryption
                                  /\ p.Uploads = {} /\ p.ExcludeDatabases = <<>>}
    /\ now = MaxDirFiles + 1 /\ runs = 1
    /\ fs \in DirListings
    /\ planDirExists = TRUE
    /\ pc = "retain"
    /\ c = NewConfig /\ dc = NoConfig /\ cc = NewConfig /\ caller = "Run"
    /\ dbNames = <<>> /\ idx = 1 /\ attempts = 0 /\ totalSize = 0 /\ failedDBs = <<>>
    /\ archive = ArchivePath(NewConfig) /\ mlog = LogPath(NewConfig) /\ file = NoPath
    /\ res = [errRes(NewConfig) EXCEPT !.Name = BaseName(ArchivePath(NewConfig))]
    /\ err = Nil
    /\ listed = FALSE /\ enumErr = Nil
    /\ ret = NoReturn
    /\ cmd = DumpCmd(NewConfig)
    /\ trace = <<>> /\ calls = <<>>
    /\ succ = [starts |-> {now}, clash |-> FALSE, n |-> 0, logged |-> TRUE]

NextRetention == Retain

SpecRetention == InitRetention /\ [][NextRetention]_vars

\* ----------------------------------------------------------- SpecDump
\* dump on its own: Run has just called the chain, for any target.
DumpTargets ==
    [Uri : {"", "mongodb://h"}, Host : {"h"}, Port : {27017},
     Username : {"", "u"}, Password : {"", "pw"}, Database : {"", "A"},
     Collection : {"", "col"}, ExcludeCollections : {<<>>, <<"x">>, <<"", "y">>},
     Params : {"", "--oplog"}, ExcludeDatabases : {<<>>}]
DumpPlans == {MakePlan(m, t, 0, FALSE, {}) : m \in {"", BackupModeSingle}, t \in DumpTargets}

InitDump ==
    /\ plan \in DumpPlans
    /\ now = 1 /\ runs = 1
    /\ fs = <<>> /\ planDirExists = FALSE
    /\ pc = "dump"
    /\ c = NewConfig /\ dc = NoConfig /\ cc = NewConfig /\ caller = "Run"
    /\ dbNames = <<>> /\ idx = 1 /\ attempts = 0 /\ totalSize = 0 /\ failedDBs = <<>>
    /\ archive = NoPath /\ mlog = NoPath /\ file = NoPath
    /\ res = NoResult /\ err = Nil
    /\ listed = FALSE /\ enumErr = Nil
    /\ ret = NoReturn
    /\ cmd = <<>>
    /\ trace = <<>> /\ calls = <<>>
    /\ succ = [starts |-> {now}, clash |-> FALSE, n |-> 0, logged |-> TRUE]

NextDump == Dump

SpecDump == InitDump /\ [][NextDump]_vars

\* --------------------------------------------------------- SpecUpload
\* The uploads on their own: the first call of the chain has dumped, moved and,
\* if configured, encrypted the archive, for any set of destinations.
Uploaders == {"sftp", "s3", "gcloud", "azure", "rclone"}
UploadPlans ==
    {MakePlan("", t, 0, e, u) :
        t \in {x \in Targets : x.Uri = "" /\ x.ExcludeDatabases = <<>>},
        e \in BOOLEAN, u \in SUBSET Uploaders}

\* the chain before the sftp stage, after a dump of the given size
AtUploads(size, hasOutput) ==
    LET a == ArchivePath(NewConfig)
        l == LogPath(NewConfig)
        moved == JoinPlanDir(BaseName(a))
        movedLog == JoinPlanDir(BaseName(l))
    IN /\ c = NewConfig /\ dc = NoConfig /\ cc = NewConfig /\ caller = "Run"
       /\ archive = a /\ mlog = l
       /\ res = [errRes(NewConfig) EXCEPT !.Name = BaseName(a), !.Size = size]
       /\ err = Nil
       /\ cmd = DumpCmd(NewConfig)
       /\ file = (IF plan.Encryption THEN EncryptedPath(moved) ELSE moved)
       /\ fs = (IF plan.Encryption THEN <<>> ELSE <<FileAt(moved, 0)>>)
               \o (IF hasOutput THEN <<FileAt(movedLog, 0)>> ELSE <<>>)
               \o (IF plan.Encryption THEN <<FileAt(EncryptedPath(moved), 0)>> ELSE <<>>)
       /\ trace = <<Step("dump", a, TRUE), Step("mkdir", NoPath, TRUE),
                    Step("stat", a, TRUE), Step("mvArchive", a, TRUE)>>
                  \o (IF hasOutput THEN <<Step("mvLog", l, TRUE)>> ELSE <<>>)
                  \o (IF plan.Encryption THEN <<Step("encrypt", moved, TRUE)>> ELSE <<>>)

InitUpload ==
    /\ plan \in UploadPlans
    /\ now = 1 /\ runs = 1
    /\ planDirExists = TRUE
    /\ pc = "sftp"
    /\ \E size \in Sizes, hasOutput \in BOOLEAN : AtUploads(size, hasOutput)
    /\ dbNames = <<>> /\ idx = 1 /\ attempts = 0 /\ totalSize = 0 /\ failedDBs = <<>>
    /\ listed = FALSE /\ enumErr = Nil
    /\ ret = NoReturn
    /\ calls = <<>>
    /\ succ = [starts |-> {now}, clash |-> FALSE, n |-> 0, logged |-> TRUE]

NextUpload == Sftp \/ S3 \/ GCloud \/ Azure \/ Rclone \/ Finalize

SpecUpload == InitUpload /\ [][NextUpload]_vars

\* ---------------------------------------------------------------- claims
ChainPcs == {"dump", "mkdir", "stat", "mvArchive", "mvLog", "retain", "encrypt",
             "sftp", "s3", "gcloud", "azure", "rclone", "finalize", "chainRet"}
ChildName(dbName) == <<plan.Name, "-", dbName>>

RECURSIVE SumOkSizes(_)
SumOkSizes(cs) ==
    IF cs = <<>> THEN 0
    ELSE (IF Head(cs).ok THEN Head(cs).size ELSE 0) + SumOkSizes(Tail(cs))
RECURSIVE FailedNames(_)
FailedNames(cs) ==
    IF cs = <<>> THEN <<>>
    ELSE (IF Head(cs).ok THEN <<>> ELSE <<Head(cs).db>>) \o FailedNames(Tail(cs))
CalledDBs == [i \in 1..Len(calls) |-> calls[i].db]
NotExcluded(n) == \A i \in 1..Len(plan.ExcludeDatabases) : plan.ExcludeDatabases[i] # n
Kept(names) == SelectSeq(names, NotExcluded)
FanoutDone == pc = "idle" /\ listed /\ ret.err.kind \in {"nil", "partial"}

\* C1: while the chain runs for the fan-out's current database, its context has
\* that database and the name planName-databaseName, the dump command selects
\* that database, and the archive is named after it.
C1_ChildContextPerDatabase ==
    (caller = "perdb" /\ pc \in ChainPcs) =>
        /\ cc.database = dbNames[idx]
        /\ cc.name = ChildName(dbNames[idx])
        /\ cmd # <<>> =>
              \E i \in 1..Len(cmd) : cmd[i][1] = "--db" /\ cmd[i][2] = dbNames[idx]
        /\ archive # NoPath => archive.name = ChildName(dbNames[idx])

\* C2: a fan-out with a failed child returns status 500 and an error naming the
\* failed databases in order with the failed and attempted counts, and a Result
\* whose size is the sum of the sizes of the children that succeeded.
C2_PartialFailureSize ==
    (pc = "idle" /\ ret.err.kind = "partial") =>
        /\ ret.res.Status = 500
        /\ ret.err.names = FailedNames(calls)
        /\ ret.err.nfailed = Len(FailedNames(calls))
        /\ ret.err.attempts = Len(calls)
        /\ ret.res.Size = SumOkSizes(calls)

\* C3: the fan-out calls the chain once for each discovered name that is not
\* excluded, in the enumerator's order, whatever the earlier children returned;
\* when every child succeeded the Result is success with the sum of their sizes.
C3_FanoutIteration ==
    /\ pc = "loop" => CalledDBs = Kept(SubSeq(dbNames, 1, idx - 1))
    /\ FanoutDone =>
          /\ CalledDBs = Kept(dbNames)
          /\ (\A i \in 1..Len(calls) : calls[i].ok) =>
                /\ ret.res.Status = 200 /\ ret.err = Nil
                /\ ret.res.Size = SumOkSizes(calls)
C3_Witness ==
    /\ FanoutDone /\ ret.err = Nil
    /\ Len(dbNames) = 2 /\ Len(calls) = 1 /\ ret.res.Size = 2

\* C4: every return of Run and of the chain carries a Result whose status is 200
\* exactly when the error is nil; the status is 500 until the chain ends, and is
\* 200 only after every applicable stage has completed without error.
Applicable ==
    {"dump", "mkdir", "stat", "mvArchive"}
    \cup (IF plan.Retention > 0 THEN {"retain"} ELSE {})
    \cup (IF plan.Encryption THEN {"encrypt"} ELSE {})
    \cup plan.Uploads
OkOps == {trace[i].op : i \in {j \in 1..Len(trace) : trace[j].ok}}
StatusMatches(r, e) ==
    /\ r.Plan = plan.Name
    /\ r.Status \in {200, 500}
    /\ r.Status = 200 <=> e = Nil
C4_ResultWithError ==
    /\ (pc = "idle" /\ runs > 0) => StatusMatches(ret.res, ret.err)
    /\ pc = "chainRet" => StatusMatches(res, err)
    /\ pc \in ChainPcs \ {"dump", "chainRet"} => res.Status = 500
    /\ (pc = "chainRet" /\ res.Status = 200) =>
          /\ Applicable \subseteq OkOps
          /\ \A i \in 1..Len(trace) : trace[i].ok
C4_Witness ==
    /\ pc = "idle" /\ ret.res.Status = 200
    /\ plan.Retention > 0 /\ plan.Encryption /\ plan.Uploads = {"sftp", "rclone"}

\* C5: when the dump command fails, by exit status or by timeout, the archive
\* is absent from the temp directory when dump returns, the chain has run no
\* other stage, and it returns status 500 with an error.
C5_DumpFailure ==
    (pc = "chainRet" /\ err.kind = "dump") =>
        /\ ~Exists(fs, ArchivePath(cc))
        /\ trace = <<Step("dump", ArchivePath(cc), FALSE)>>
        /\ archive = NoPath
        /\ res.Status = 500 /\ err # Nil
C5_Witness == pc = "chainRet" /\ err.kind = "dump" /\ err.what = "timeout"

\* C6: the stages of one attempt run in the order dump, mkdir, stat and move of
\* the archive, move of the log, retain, encrypt, the uploads, finalize, and no
\* stage runs after a stage that failed.
StageOrder == <<"dump", "mkdir", "stat", "mvArchive", "mvLog", "retain", "encrypt",
                "sftp", "s3", "gcloud", "azure", "rclone", "finalize">>
Rank(op) == CHOOSE i \in 1..Len(StageOrder) : StageOrder[i] = op
C6_StageOrder ==
    /\ \A i, j \in 1..Len(trace) :
          i < j => Rank(trace[i].op) < Rank(trace[j].op)
    /\ \A i \in 1..Len(trace) :
          ~trace[i].ok => i = Len(trace) /\ pc = "chainRet"
C6_Witness ==
    /\ pc = "chainRet" /\ Len(trace) = 9
    /\ trace[8].op = "sftp" /\ trace[8].ok
    /\ trace[9].op = "rclone" /\ ~trace[9].ok

\* C7 as claimed: after k >= N successful runs that each moved a log, the plan
\* directory holds exactly N archives and N logs.
Archives == {f \in Files(fs) : f.loc = "plan" /\ f.ext \in ArchiveExts}
Logs == {f \in Files(fs) : f.loc = "plan" /\ f.ext \in LogExts}
JustSucceeded == pc = "chainRet" /\ err = Nil
C7_SteadyStateAnyRuns ==
    (JustSucceeded /\ plan.Retention > 0 /\ succ.logged /\ succ.n >= plan.Retention) =>
        /\ Cardinality(Archives) = plan.Retention
        /\ Cardinality(Logs) = plan.Retention

\* C7 as amended: when no two runs of the plan started in the same second, then
\* after k >= N successful runs that each moved a log the plan directory holds
\* exactly N archives and N logs.
C7_SteadyStateDistinctSeconds ==
    (JustSucceeded /\ plan.Retention > 0 /\ succ.logged /\ ~succ.clash
        /\ succ.n >= plan.Retention) =>
        /\ Cardinality(Archives) = plan.Retention
        /\ Cardinality(Logs) = plan.Retention
C7_Witness ==
    /\ JustSucceeded /\ plan.Retention = 1 /\ succ.logged /\ ~succ.clash
    /\ succ.n = 2 /\ plan.Encryption

\* C8: a successful applyRetention with count N keeps, of the archives (plain
\* and encrypted together) and of the logs separately, exactly the N most
\* recently modified and removes the others; it touches nothing else, and a
\* class of at most N files is left as it was.
ClassOf(f) == IF f.ext \in ArchiveExts THEN "archive" ELSE "log"
NewerInClass(s, j) ==
    Cardinality({k \in (j + 1)..Len(s) :
                    s[k].loc = "plan" /\ ClassOf(s[k]) = ClassOf(s[j])})
Survivors(s, n) ==
    {s[j] : j \in {k \in 1..Len(s) : s[k].loc # "plan" \/ NewerInClass(s, k) < n}}
InClass(s, cl) == {f \in Files(s) : f.loc = "plan" /\ ClassOf(f) = cl}
Retained == pc = "encrypt" /\ plan.Retention > 0
DirBefore == trace[Len(trace)].arg.dir
C8_RetentionKeepsNewest ==
    Retained =>
        /\ trace[Len(trace)].op = "retain"
        /\ fs = SelectFiles(DirBefore, Survivors(DirBefore, plan.Retention))
        /\ \A cl \in {"archive", "log"} :
              Cardinality(InClass(DirBefore, cl)) <= plan.Retention =>
                  InClass(fs, cl) = InClass(DirBefore, cl)
C8_Witness ==
    /\ Retained /\ plan.Retention = 2
    /\ Cardinality(InClass(DirBefore, "archive")) = 5
    /\ Cardinality(InClass(DirBefore, "log")) = 5
    /\ Cardinality(InClass(fs, "archive")) = 2
    /\ Cardinality(InClass(fs, "log")) = 2

\* C9: a single-mode plan with database exclusions never runs a stage: each call
\* of Run returns a configuration error with status 500 and nothing is touched.
SingleWithExclusions ==
    plan.Mode \in {"", BackupModeSingle} /\ Len(plan.ExcludeDatabases) # 0
C9_SingleModeExclusionRejected ==
    SingleWithExclusions =>
        /\ pc = "idle"
        /\ fs = <<>> /\ ~planDirExists /\ trace = <<>> /\ cmd = <<>>
        /\ ~listed /\ calls = <<>>
        /\ runs > 0 => ret.err = [kind |-> "config", what |-> "exclude"]
                       /\ ret.res.Status = 500 /\ ret.res.Plan = plan.Name
C9_Witness == SingleWithExclusions /\ runs = 2 /\ plan.Mode = BackupModeSingle

\* C10: a per-database plan without a URI never lists databases and never
\* starts a child attempt: the fan-out returns a configuration error with
\* status 500.
FanoutWithoutUri == plan.Mode = BackupModeDatabase /\ plan.Uri = ""
C10_FanoutWithoutUriRejected ==
    FanoutWithoutUri =>
        /\ pc \in {"idle", "perdb"}
        /\ ~listed /\ calls = <<>> /\ attempts = 0
        /\ fs = <<>> /\ ~planDirExists /\ trace = <<>> /\ cmd = <<>>
        /\ (pc = "idle" /\ runs > 0) =>
              ret.err = [kind |-> "config", what |-> "uri"]
              /\ ret.res.Status = 500 /\ ret.res.Plan = plan.Name
C10_Witness == FanoutWithoutUri /\ pc = "idle" /\ runs = 1

\* C11: when the enumerator fails, by connect error or by list error, the
\* fan-out returns at once a Result of status 500 with that error, and no call
\* of the single-database chain is made or counted.
C11_EnumerationFailureAborts ==
    enumErr # Nil =>
        /\ pc = "idle"
        /\ ret = [res |-> errRes(c), err |-> enumErr]
        /\ ret.res.Status = 500
        /\ calls = <<>> /\ attempts = 0 /\ trace = <<>> /\ cmd = <<>>
C11_Witness ==
    /\ enumErr = ListErr /\ pc = "idle" /\ plan.ExcludeDatabases = <<"B">>
    /\ plan.Retention = 1

\* C12: the dump command of a plan with a URI has the URI selector and no host,
\* port or credential flag; the command of a plan without a URI has host and
\* port and no URI flag, and has the credentials exactly when username and
\* password are both non-empty.
Flags(cm) == {cm[i][1] : i \in 1..Len(cm)}
HasFlag(cm, flag, value) == \E i \in 1..Len(cm) : cm[i][1] = flag /\ cm[i][2] = value
C12_DumpSelectors ==
    cmd # <<>> =>
        /\ plan.Uri # "" =>
              /\ HasFlag(cmd, "--uri", plan.Uri)
              /\ Flags(cmd) \cap {"--host", "--port", "-u", "-p"} = {}
        /\ plan.Uri = "" =>
              /\ HasFlag(cmd, "--host", plan.Host)
              /\ HasFlag(cmd, "--port", plan.Port)
              /\ "--uri" \notin Flags(cmd)
              /\ IF plan.Username # "" /\ plan.Password # ""
                 THEN /\ HasFlag(cmd, "-u", plan.Username)
                      /\ HasFlag(cmd, "-p", plan.Password)
                 ELSE Flags(cmd) \cap {"-u", "-p"} = {}
C12_Witness ==
    /\ cmd # <<>> /\ plan.Uri = "" /\ plan.Username = "u" /\ plan.Password = ""
    /\ plan.Params # "" /\ plan.Collection # ""

\* C13: the uploads of one attempt run one at a time in the order SFTP, S3,
\* GCloud, Azure, Rclone, each configured destination at most once; the first
\* upload that fails ends the attempt with its error, the destinations after it
\* are not tried, and the uploads done before it and the file stay as they are.
UploadSteps == SelectSeq(trace, LAMBDA st : st.op \in Uploaders)
Uploaded == {UploadSteps[i].op : i \in 1..Len(UploadSteps)}
ConfiguredBefore(stage) == {u \in plan.Uploads : Rank(u) < Rank(stage)}
C13_UploadOrder ==
    /\ \A i, j \in 1..Len(UploadSteps) :
          i < j => /\ Rank(UploadSteps[i].op) < Rank(UploadSteps[j].op)
                   /\ UploadSteps[i].ok
    /\ Uploaded \subseteq plan.Uploads
    /\ pc \in Uploaders \cup {"finalize"} =>
          /\ Uploaded = ConfiguredBefore(pc)
          /\ \A i \in 1..Len(UploadSteps) : UploadSteps[i].ok
    /\ (pc = "chainRet" /\ err = Nil) => Uploaded = plan.Uploads
    /\ (pc = "chainRet" /\ err.kind = "upload") =>
          /\ trace[Len(trace)] = Step(err.what, file, FALSE)
          /\ Uploaded = ConfiguredBefore(err.what) \cup {err.what}
          /\ res.Status = 500
          /\ Exists(fs, file)
C13_Witness ==
    /\ pc = "chainRet" /\ err.kind = "upload" /\ err.what = "azure"
    /\ plan.Uploads = Uploaders /\ Len(UploadSteps) = 4

\* C14: with an encryption config, once encryption has succeeded the plain
\* archive is gone from the plan directory and every upload of the attempt gets
\* the ".encrypted" path; when encryption fails the attempt ends with status
\* 500 and no upload is made.  Without an encryption config every upload gets
\* the plain archive path in the plan directory.
PlainFile == JoinPlanDir(BaseName(ArchivePath(cc)))
EncryptSteps == SelectSeq(trace, LAMBDA st : st.op = "encrypt")
C14_EncryptionPath ==
    /\ Len(EncryptSteps) <= 1
    /\ plan.Encryption =>
          /\ UploadSteps # <<>> => EncryptSteps = <<Step("encrypt", PlainFile, TRUE)>>
          /\ \A i \in 1..Len(UploadSteps) :
                /\ UploadSteps[i].arg = EncryptedPath(PlainFile)
                /\ UploadSteps[i].arg # PlainFile
          /\ (EncryptSteps # <<>> /\ EncryptSteps[1].ok) =>
                /\ ~Exists(fs, PlainFile)
                /\ Exists(fs, EncryptedPath(PlainFile))
                /\ file = EncryptedPath(PlainFile)
          /\ (EncryptSteps # <<>> /\ ~EncryptSteps[1].ok) =>
                /\ pc = "chainRet" /\ err = [kind |-> "encrypt"]
                /\ res.Status = 500
                /\ UploadSteps = <<>>
    /\ ~plan.Encryption =>
          /\ EncryptSteps = <<>>
          /\ \A i \in 1..Len(UploadSteps) : UploadSteps[i].arg = PlainFile
C14_Witness ==
    /\ plan.Encryption /\ pc = "chainRet" /\ err = Nil
    /\ Len(UploadSteps) = 2 /\ UploadSteps[2].arg.ext = "gz.encrypted"
    /\ plan.Retention = 1 /\ runs = 2

\* C15: a call of applyRetention that fails has still run the deletion command
\* of both classes, the archives and the logs, and returns a retention error.
RetainSteps == SelectSeq(trace, LAMBDA st : st.op = "retain")
C15_RetentionTriesBothClasses ==
    \A i \in 1..Len(RetainSteps) :
        ~RetainSteps[i].ok =>
            /\ err.kind = "retention"
            /\ RetainSteps[i].arg.ran = <<"gz", "log">>

\* C16: a failed attempt returns status 500 with the fields reached so far: the
\* archive base name once the dump has produced the archive, and the archive's
\* size once stat has recorded it.  A retention failure is returned as an error
\* while the moved archive stays in the plan directory and the Result has its
\* name and size.
StepOk(op) == \E i \in 1..Len(trace) : trace[i].op = op /\ trace[i].ok
ArchiveBase == Path("", cc.name, cc.ts, "gz")
ChainFailed == pc = "chainRet" /\ err # Nil
C16_PartialResult ==
    /\ pc = "mvArchive" => res.Size = Lookup(fs, archive).size
    /\ ChainFailed =>
          /\ res.Status = 500 /\ res.Plan = plan.Name
          /\ IF StepOk("dump") THEN res.Name = ArchiveBase ELSE res.Name = NoPath
          /\ IF StepOk("stat") THEN res.Size \in Sizes ELSE res.Size = 0
          /\ (StepOk("stat") /\ ~StepOk("mvArchive")) =>
                res.Size = Lookup(fs, archive).size
          /\ err.kind = "retention" =>
                /\ StepOk("mvArchive")
                /\ Exists(fs, Path("plan", cc.name, cc.ts, "gz"))
                /\ res.Name = ArchiveBase /\ res.Size \in Sizes
C16_Witness ==
    /\ ChainFailed /\ err = RetentionErr("log") /\ res.Size = 2
    /\ runs = 2 /\ plan.Retention = 1 /\ Cardinality(Archives) = 1

\* C17: the child attempts of one fan-out run for two different databases use
\* different archive paths and different log paths, in the temp directory and
\* in the plan directory, so no child replaces the archive of an earlier child.
ChildPaths(cfg) ==
    {ArchivePath(cfg), LogPath(cfg), JoinPlanDir(BaseName(ArchivePath(cfg))),
     JoinPlanDir(BaseName(LogPath(cfg)))}
C17_ChildPathsDistinct ==
    \A i, j \in 1..Len(calls) :
        calls[i].db # calls[j].db =>
            ChildPaths(calls[i].cfg) \cap ChildPaths(calls[j].cfg) = {}

\* C18: after a fan-out run with retention N > 0 in which every child
\* succeeded, the plan directory holds an archive of this run for each of the
\* K databases dumped, also when K > N.
ArchivesOfRun == {f \in Archives : f.ts = c.ts}
C18_SiblingArchivesKept ==
    (FanoutDone /\ ret.err = Nil /\ plan.Retention > 0) =>
        Cardinality(ArchivesOfRun) >= Len(calls)

\* C19: when an attempt returns success, its archive and its log are not in the
\* temp directory, and the plan directory has the attempt's artifact under one
\* name only: the ".gz.encrypted" file when encryption is configured, the
\* plain ".gz" file otherwise.
C19_SuccessLeavesOneArtifact ==
    JustSucceeded =>
        /\ ~Exists(fs, ArchivePath(cc))
        /\ ~Exists(fs, LogPath(cc))
        /\ Exists(fs, PlainFile) <=> ~plan.Encryption
        /\ Exists(fs, EncryptedPath(PlainFile)) <=> plan.Encryption
C19_Witness ==
    /\ JustSucceeded /\ plan.Encryption /\ plan.Retention = 2 /\ succ.n = 3
    /\ Cardinality(Archives) = 2 /\ Cardinality(Logs) = 1

\* C20: with retention N >= 1 the retention step of an attempt leaves the
\* archive this attempt has just moved into the plan directory, so the file
\* given to encryption and to the uploads exists when those stages start.
C20_RetentionKeepsOwnArchive ==
    plan.Retention >= 1 =>
        /\ pc = "encrypt" => file = PlainFile /\ Exists(fs, file)
        /\ pc \in Uploaders =>
              /\ file = (IF plan.Encryption THEN EncryptedPath(PlainFile) ELSE PlainFile)
              /\ Exists(fs, file)
C20_Witness ==
    /\ pc = "encrypt" /\ plan.Retention = 1 /\ plan.Encryption
    /\ Cardinality(InClass(DirBefore, "archive")) = 2
    /\ Cardinality(Archives) = 1 /\ Exists(fs, file)

====
